---- MODULE Spec2Model ----
(***************************************************************************)
(* A model of src/app.py: the render-job orchestrator (create_reel_endpoint *)
(* / create_reel_async / check_status over the global job_status and        *)
(* job_results dictionaries), the reel pipeline create_reel and the motion  *)
(* analyzer detect_interesting_moments.                                     *)
(*                                                                          *)
(* Threads: Flask serves every request on its own thread and every accepted *)
(* render runs on a threading.Thread, so each Python statement that touches *)
(* a shared dictionary or the file system is one atomic step, and steps of  *)
(* different threads interleave freely.                                     *)
(***************************************************************************)
EXTENDS Integers, Sequences, FiniteSets, TLC

\* ------------------------------------------------------------------ bounds
MaxJobs == 2      \* accepted render requests (one worker thread each)
MaxPolls == 2     \* status polls (one request thread each)

\* ------------------------------------------------------------------ values
Sessions == {"s1"}
NoSid == "no_sid"             \* data.get('session_id') is None or ''
NoPath == "no_path"           \* data.get('music_path') is None
MusicPaths == {"m1"}

\* The (music_source, music_path) pairs a /create request is sent with.
MusicInputs == {<<"none", NoPath>>, <<"local", NoPath>>} \cup
               {<<"local", m>> : m \in MusicPaths}

JobIds == 1..MaxJobs
PollIds == 1..MaxPolls

NoClipsMsg == "No clips could be extracted from any video"
ConcatMsg == "concatenate_videoclips failed"
EncodeMsg == "write_videofile failed"
CloseMsg == "final_clip.close failed"
UnknownErrorMsg == "Unknown error"

\* A JSON payload stored in job_results / returned by check_status.  The empty
\* dictionary {} is the record with no field set.
EmptyPayload == [success |-> FALSE, download_url |-> "", error |-> ""]

SuccessPayload(sid) == [success |-> TRUE, download_url |-> sid, error |-> ""]

ErrorPayload(msg) == [success |-> FALSE, download_url |-> "", error |-> msg]

VARIABLES
    uploads,      \* session id -> "none" | "empty" | "videos": uploads/<sid>/ and its valid videos
    musicFiles,   \* the files present in music/
    outputs,      \* session ids whose outputs/<sid>.mp4 exists
    job_status,   \* job_status dict: session id -> "absent" | "processing" | "completed" | "failed"
    job_results,  \* job_results dict: session id -> payload, or NoResult when the key is absent
    workers,      \* job id -> the create_reel_async thread of that accepted request
    pollers,      \* poll id -> the check_status request thread
    nsub,         \* number of accepted render requests so far
    npoll,        \* number of status polls started so far
    lastSubmit    \* the last /create request and the handler's answer to it

orchVars == <<uploads, musicFiles, outputs, job_status, job_results, workers, pollers,
              nsub, npoll, lastSubmit>>

\* The arithmetic of create_reel on its own: one computation and its result.
VARIABLES
    calc_in,      \* the inputs of the computation: a trim, a caption or a music mix
    calc_out      \* its result, [kind |-> "none"] before it ran

calcVars == <<calc_in, calc_out>>

\* One create_reel_async thread in detail: the arguments and locals of
\* create_reel and the media objects it creates.
VARIABLES
    video_paths,       \* the ordered file list the endpoint passes to the thread
    video_settings,    \* the Clip Settings list of the request, as sent
    settings_map,      \* settings_map of create_reel: path -> settings entry
    rpc,               \* where the thread is: "idle", "start", "transform", "check", "concat",
                       \* "captions", "music", "encode", "release", "returned", "raised",
                       \* "write_result", "finished"
    idx,               \* the loop position in video_paths (1-based)
    objs,              \* media object -> [made, closes]: created?, close() calls so far
    clips_to_compile,  \* the transformed clips: [src |-> position, span |-> ticks]
    source_clips,      \* the positions whose source handle is kept for release
    audio_clips,       \* the audio objects kept for release
    final_clip,        \* the timeline: [obj, duration, overlays, music]
    reel_exc,          \* the message of the exception create_reel raised, "" if none
    encoderCalls,      \* calls of write_videofile
    feature_errors     \* the best-effort features whose error was caught and logged

reelVars == <<video_paths, video_settings, settings_map, rpc, idx, objs, clips_to_compile, source_clips,
              audio_clips, final_clip, reel_exc, encoderCalls, feature_errors>>

\* Everything the orchestrator's request handlers leave alone.
pipelineVars == <<reelVars, calcVars>>

vars == <<orchVars, pipelineVars>>

NoResult == [success |-> FALSE, download_url |-> "", error |-> "<absent>"]

IdleWorker == [sid |-> NoSid, pc |-> "unused", exc |-> ""]

IdlePoller == [sid |-> NoSid, pc |-> "unused", status |-> "", result |-> NoResult,
               response |-> "", payload |-> EmptyPayload, fromRecord |-> FALSE]

NoSubmit == [sid |-> NoSid, source |-> "none", path |-> NoPath, error |-> "<none>"]

\* ------------------------------------------------------------------ dict helpers
\* dict.get(key, default)
DictGet(d, k, default, absent) == IF d[k] = absent THEN default ELSE d[k]

\* dict.pop(key, None)
DictPop(d, k, absent) == [d EXCEPT ![k] = absent]

\* ------------------------------------------------------------------ uploads
\* upload_files: a fresh uuid4 session folder; it holds the allowed files of the
\* request (possibly none: the folder is created before the files are filtered).
Upload(s) ==
    /\ uploads[s] = "none"
    /\ \E v \in {"empty", "videos"} : uploads' = [uploads EXCEPT ![s] = v]
    /\ UNCHANGED <<musicFiles, outputs, job_status, job_results, workers, pollers,
                   nsub, npoll, lastSubmit, pipelineVars>>

\* upload_music: saves the music file under music/.
UploadMusic(m) ==
    /\ m \notin musicFiles
    /\ musicFiles' = musicFiles \cup {m}
    /\ UNCHANGED <<uploads, outputs, job_status, job_results, workers, pollers,
                   nsub, npoll, lastSubmit, pipelineVars>>

\* clear_storage: removes the plain files of uploads/, outputs/ and music/
\* (session folders are directories and stay).
ClearStorage ==
    /\ outputs # {} \/ musicFiles # {}
    /\ outputs' = {}
    /\ musicFiles' = {}
    /\ UNCHANGED <<uploads, job_status, job_results, workers, pollers,
                   nsub, npoll, lastSubmit, pipelineVars>>

\* ------------------------------------------------------------------ /create
\* SubmitError without the check of the local music file.
SubmitErrorNoMusicCheck(sid, source, path, up, music) ==
    IF sid = NoSid THEN "No session ID"
    ELSE IF up[sid] = "none" THEN "Session not found"
    ELSE IF up[sid] = "empty" THEN "No videos found"
    ELSE ""

\* The validation of create_reel_endpoint: the error it returns, "" when the
\* request is accepted.
SubmitError(sid, source, path, up, music) ==
    IF sid = NoSid THEN "No session ID"
    ELSE IF up[sid] = "none" THEN "Session not found"
    ELSE IF up[sid] = "empty" THEN "No videos found"
    ELSE IF source = "local" /\ path # NoPath /\ path \notin music
         THEN "Music file not found"
    ELSE ""

\* create_reel_endpoint starting the thread before it records processing: the
\* worker is already running when job_status[session_id] = 'processing' is written.
SubmitHandlerStartsFirst(sid, source, path) ==
    LET err == SubmitError(sid, source, path, uploads, musicFiles) IN
    /\ IF err = ""
       THEN /\ nsub < MaxJobs
            /\ nsub' = nsub + 1
            /\ job_status' = [job_status EXCEPT ![sid] = "processing"]
            /\ workers' = [workers EXCEPT ![nsub + 1] =
                               [sid |-> sid, pc |-> "run", exc |-> ""]]
       ELSE UNCHANGED <<nsub, job_status, workers>>
    /\ UNCHANGED <<uploads, musicFiles, outputs, job_results, pollers, npoll, pipelineVars>>

\* create_reel_endpoint, up to and including job_status[session_id] = 'processing'.
\* The thread it is about to start is recorded with pc "unstarted".
SubmitHandler(sid, source, path) ==
    LET err == SubmitError(sid, source, path, uploads, musicFiles) IN
    /\ IF err = ""
       THEN /\ nsub < MaxJobs
            /\ nsub' = nsub + 1
            /\ job_status' = [job_status EXCEPT ![sid] = "processing"]
            /\ workers' = [workers EXCEPT ![nsub + 1] =
                               [sid |-> sid, pc |-> "unstarted", exc |-> ""]]
       ELSE UNCHANGED <<nsub, job_status, workers>>
    /\ UNCHANGED <<uploads, musicFiles, outputs, job_results, pollers, npoll, pipelineVars>>

\* A /create request whose request and answer are not observed.
Submit(sid, source, path) ==
    /\ SubmitHandler(sid, source, path)
    /\ UNCHANGED lastSubmit

\* A /create request, observed: lastSubmit keeps the request and the error the
\* handler answered with ("" for the acceptance).
SubmitObserved(sid, source, path) ==
    /\ SubmitHandler(sid, source, path)
    /\ lastSubmit' = [sid |-> sid, source |-> source, path |-> path,
                      error |-> SubmitError(sid, source, path, uploads, musicFiles)]

\* threading.Thread(target=create_reel_async, ...).start()
Launch(w) ==
    /\ workers[w].pc = "unstarted"
    /\ workers' = [workers EXCEPT ![w].pc = "run"]
    /\ UNCHANGED <<uploads, musicFiles, outputs, job_status, job_results, pollers,
                   nsub, npoll, lastSubmit, pipelineVars>>

\* ------------------------------------------------------------------ worker
\* The exception create_reel raises before it returns, "" when it gets past the
\* encoder: no surviving clip, a failed concatenation, a failed write_videofile.
PipelineError(anySurvivor, concatOK, encodeOK) ==
    IF ~anySurvivor THEN NoClipsMsg
    ELSE IF ~concatOK THEN ConcatMsg
    ELSE IF ~encodeOK THEN EncodeMsg
    ELSE ""

\* TerminalStatus with the exception escaping create_reel_async: the record
\* keeps its processing status.
TerminalStatusEscapes(exc) == IF exc = "" THEN "completed" ELSE "processing"

\* The status create_reel_async records: 'completed' when create_reel returned,
\* 'failed' when it raised exc.
TerminalStatus(exc) == IF exc = "" THEN "completed" ELSE "failed"

\* The result create_reel_async records next to the status.
TerminalResult(sid, exc) == IF exc = "" THEN SuccessPayload(sid) ELSE ErrorPayload(exc)

\* create_reel_async calling create_reel: the pipeline up to and including
\* write_videofile.  A successful encode leaves outputs/<sid>.mp4; a failed one
\* may leave a partial file behind (write_videofile does not remove it).
WorkerRun(w) ==
    /\ workers[w].pc = "run"
    /\ \E anySurvivor, concatOK, encodeOK, partial \in BOOLEAN :
         LET err == PipelineError(anySurvivor, concatOK, encodeOK)
             sid == workers[w].sid IN
         /\ workers' = [workers EXCEPT ![w].exc = err,
                                       ![w].pc = IF err = "" THEN "release"
                                                 ELSE "write_status"]
         /\ outputs' = IF err = "" \/ (err = EncodeMsg /\ partial)
                       THEN outputs \cup {sid} ELSE outputs
    /\ UNCHANGED <<uploads, musicFiles, job_status, job_results, pollers,
                   nsub, npoll, lastSubmit, pipelineVars>>

\* The end of create_reel after a successful encode: final_clip.close() is
\* called outside any try block, so an error it raises leaves create_reel.
WorkerRelease(w) ==
    /\ workers[w].pc = "release"
    /\ \E closeOK \in BOOLEAN :
         workers' = [workers EXCEPT ![w].exc = IF closeOK THEN "" ELSE CloseMsg,
                                    ![w].pc = "write_status"]
    /\ UNCHANGED <<uploads, musicFiles, outputs, job_status, job_results, pollers,
                   nsub, npoll, lastSubmit, pipelineVars>>

\* job_status[session_id] = 'completed' / 'failed'
WorkerWriteStatus(w) ==
    /\ workers[w].pc = "write_status"
    /\ job_status' = [job_status EXCEPT ![workers[w].sid] = TerminalStatus(workers[w].exc)]
    /\ workers' = [workers EXCEPT ![w].pc = "write_result"]
    /\ UNCHANGED <<uploads, musicFiles, outputs, job_results, pollers,
                   nsub, npoll, lastSubmit, pipelineVars>>

\* job_results[session_id] = {...}
WorkerWriteResult(w) ==
    /\ workers[w].pc = "write_result"
    /\ job_results' = [job_results EXCEPT ![workers[w].sid] =
                           TerminalResult(workers[w].sid, workers[w].exc)]
    /\ workers' = [workers EXCEPT ![w].pc = "done", ![w].exc = ""]
    /\ UNCHANGED <<uploads, musicFiles, outputs, job_status, pollers,
                   nsub, npoll, lastSubmit, pipelineVars>>

\* ------------------------------------------------------------------ /status
Terminal == {"completed", "failed"}

\* The default check_status passes to job_results.get for a terminal status.
ResultDefault(status) ==
    IF status = "completed" THEN EmptyPayload ELSE ErrorPayload(UnknownErrorMsg)

\* check_status popping the record in every branch, the processing one too.
PollStartClears(sid) ==
    LET p == npoll + 1
        st == DictGet(job_status, sid, "unknown", "absent") IN
    /\ npoll < MaxPolls
    /\ npoll' = p
    /\ pollers' = [pollers EXCEPT ![p] =
           [IdlePoller EXCEPT !.sid = sid, !.status = st,
                              !.pc = IF st \in Terminal THEN "get_result"
                                     ELSE IF st = "processing" THEN "done"
                                     ELSE "exists",
                              !.response = IF st = "processing" THEN "processing" ELSE ""]]
    /\ job_status' = IF st = "processing" THEN DictPop(job_status, sid, "absent")
                     ELSE job_status
    /\ UNCHANGED <<uploads, musicFiles, outputs, job_results, workers,
                   nsub, lastSubmit, pipelineVars>>

\* status = job_status.get(session_id, 'unknown'); a 'processing' status is
\* answered at once (the handler touches no shared state after reading it).
PollStart(sid) ==
    LET p == npoll + 1
        st == DictGet(job_status, sid, "unknown", "absent") IN
    /\ npoll < MaxPolls
    /\ npoll' = p
    /\ pollers' = [pollers EXCEPT ![p] =
           [IdlePoller EXCEPT !.sid = sid, !.status = st,
                              !.pc = IF st \in Terminal THEN "get_result"
                                     ELSE IF st = "processing" THEN "done"
                                     ELSE "exists",
                              !.response = IF st = "processing" THEN "processing" ELSE ""]]
    /\ UNCHANGED <<uploads, musicFiles, outputs, job_status, job_results, workers,
                   nsub, lastSubmit, pipelineVars>>

\* result = job_results.get(session_id, default)
PollGetResult(p) ==
    /\ pollers[p].pc = "get_result"
    /\ pollers' = [pollers EXCEPT
           ![p].result = DictGet(job_results, pollers[p].sid,
                                 ResultDefault(pollers[p].status), NoResult),
           ![p].pc = "pop_status"]
    /\ UNCHANGED <<uploads, musicFiles, outputs, job_status, job_results, workers,
                   nsub, npoll, lastSubmit, pipelineVars>>

\* job_status.pop(session_id, None)
PollPopStatus(p) ==
    /\ pollers[p].pc = "pop_status"
    /\ job_status' = DictPop(job_status, pollers[p].sid, "absent")
    /\ pollers' = [pollers EXCEPT ![p].pc = "pop_result"]
    /\ UNCHANGED <<uploads, musicFiles, outputs, job_results, workers,
                   nsub, npoll, lastSubmit, pipelineVars>>

\* job_results.pop(session_id, None); return jsonify({'status': status, **result})
PollPopResult(p) ==
    /\ pollers[p].pc = "pop_result"
    /\ job_results' = DictPop(job_results, pollers[p].sid, NoResult)
    /\ pollers' = [pollers EXCEPT ![p].pc = "done",
                                  ![p].response = pollers[p].status,
                                  ![p].payload = pollers[p].result,
                                  ![p].result = NoResult,
                                  ![p].fromRecord = TRUE]
    /\ UNCHANGED <<uploads, musicFiles, outputs, job_status, workers,
                   nsub, npoll, lastSubmit, pipelineVars>>

\* The branch for a session id with no record without the look at the disk.
PollExistsIgnoresArtifact(p) ==
    /\ pollers[p].pc = "exists"
    /\ pollers' = [pollers EXCEPT ![p].pc = "done", ![p].response = "not_found",
                                  ![p].payload = EmptyPayload]
    /\ UNCHANGED <<uploads, musicFiles, outputs, job_status, job_results, workers,
                   nsub, npoll, lastSubmit, pipelineVars>>

\* The branch for a session id with no record: the artifact on disk decides.
PollExists(p) ==
    /\ pollers[p].pc = "exists"
    /\ pollers' = [pollers EXCEPT
           ![p].pc = "done",
           ![p].response = IF pollers[p].sid \in outputs THEN "completed" ELSE "not_found",
           ![p].payload = IF pollers[p].sid \in outputs
                          THEN [EmptyPayload EXCEPT !.download_url = pollers[p].sid]
                          ELSE EmptyPayload]
    /\ UNCHANGED <<uploads, musicFiles, outputs, job_status, job_results, workers,
                   nsub, npoll, lastSubmit, pipelineVars>>

\* ------------------------------------------------------------------ create_reel arithmetic
\* Times are whole ticks of 0.1 s: 0.5 s is 5 ticks, 0.1 s is 1 tick.
Max(a, b) == IF a >= b THEN a ELSE b

Min(a, b) == IF a <= b THEN a ELSE b

TrimMinSpan == 5        \* the 0.5 of trim_end = max(trim_start + 0.5, ...)
MinClipDuration == 5    \* the 0.5 of "if clip_duration < 0.5"
MinCaption == 1         \* the 0.1 of end_time = max(start_time + 0.1, ...)

\* The settings_map lookup of a path with no entry.
NoSettings == [has |-> FALSE, trim_start |-> 0, trim_end |-> 0, filename |-> ""]

\* trim_start: 0 without settings, else vs['trim_start'] clamped to [0, duration].
\* (A missing 'trim_start' key defaults to 0, the same as the key with 0.)
TrimStart(vs, duration) ==
    IF vs.has THEN Max(0, Min(vs.trim_start, duration)) ELSE 0

\* trim_end: duration without settings, else vs['trim_end'] capped at duration
\* and raised to trim_start + 0.5.  (A missing 'trim_end' key defaults to
\* duration, the same as any value >= duration.)
TrimEnd(vs, trim_start, duration) ==
    IF vs.has THEN Max(trim_start + TrimMinSpan, Min(vs.trim_end, duration))
    ELSE duration

\* The too-short test missing: no clip is skipped for its span.
TooShortNever(clip_duration) == FALSE

\* if clip_duration < 0.5: skip the clip
TooShort(clip_duration) == clip_duration < MinClipDuration

\* The trim window of one clip and whether the clip is skipped for it.
TrimWindow(vs, duration) ==
    LET ts == TrimStart(vs, duration)
        te == TrimEnd(vs, ts, duration)
    IN [trim_start |-> ts, trim_end |-> te, skipped |-> TooShort(te - ts)]

\* start_time = max(0, min(start_time, duration))
CaptionStart(startTime, duration) == Max(0, Min(startTime, duration))

\* end_time = max(start_time + 0.1, min(end_time, duration))
CaptionEnd(endTime, start_time, duration) ==
    Max(start_time + MinCaption, Min(endTime, duration))

\* The loop count without the extra repetition.
LoopsNeededNoExtra(F, M) == F \div M

\* loops_needed = int(final_clip.duration / music_clip.duration) + 1
LoopsNeeded(F, M) == (F \div M) + 1

\* clip.subclipped(start, end) of a clip of duration dur: a clip of duration
\* end - start; it only exists when the window lies inside the clip.
Subclipped(dur, start, end) ==
    [ok |-> start < dur /\ end <= dur, duration |-> end - start]

\* The music track of duration M fitted to a timeline of duration F: looped
\* when shorter, then cut to [0, F].  bound: the cut succeeded and the track is
\* attached with with_audio; covered: how much of the timeline has music.
MusicMix(M, F) ==
    IF M < F
    THEN LET n == LoopsNeeded(F, M)
             cut == Subclipped(n * M, 0, F)
         IN [bound |-> cut.ok, duration |-> cut.duration, loops |-> n,
             covered |-> Min(n * M, F)]
    ELSE LET cut == Subclipped(M, 0, F)
         IN [bound |-> cut.ok, duration |-> cut.duration, loops |-> 1,
             covered |-> Min(M, F)]

MaxT == 8     \* the longest duration (ticks) the arithmetic is checked with

Times == (0 - 2)..(MaxT + 2)

TrimInputs ==
    {[kind |-> "trim", duration |-> d, vs |-> NoSettings] : d \in 1..MaxT} \cup
    {[kind |-> "trim", duration |-> d,
      vs |-> [has |-> TRUE, trim_start |-> a, trim_end |-> b, filename |-> "a"]] :
        d \in 1..MaxT, a \in Times, b \in Times}

CaptionInputs ==
    {[kind |-> "caption", duration |-> d, startTime |-> a, endTime |-> b] :
        d \in MinClipDuration..MaxT, a \in Times, b \in Times}

MixInputs ==
    {[kind |-> "music", M |-> m, F |-> f] : m \in 1..(MaxT + 2), f \in MinClipDuration..MaxT}

\* Lines 200-220 for one clip.
ApplyTrim ==
    /\ calc_in.kind = "trim"
    /\ calc_out.kind = "none"
    /\ calc_out' = [kind |-> "trim", window |-> TrimWindow(calc_in.vs, calc_in.duration)]
    /\ UNCHANGED <<calc_in, orchVars, reelVars>>

\* Lines 298-307 for one caption.
ApplyCaption ==
    /\ calc_in.kind = "caption"
    /\ calc_out.kind = "none"
    /\ LET st == CaptionStart(calc_in.startTime, calc_in.duration)
           et == CaptionEnd(calc_in.endTime, st, calc_in.duration)
       IN calc_out' = [kind |-> "caption", start_time |-> st, end_time |-> et]
    /\ UNCHANGED <<calc_in, orchVars, reelVars>>

\* Lines 383-389 for one music track.
ApplyMusic ==
    /\ calc_in.kind = "music"
    /\ calc_out.kind = "none"
    /\ calc_out' = [kind |-> "music", mix |-> MusicMix(calc_in.M, calc_in.F)]
    /\ UNCHANGED <<calc_in, orchVars, reelVars>>

\* ------------------------------------------------------------------ detect_interesting_moments
\* Times of the motion analyzer are whole units of 1/300 s, so that every
\* quotient the function computes on the durations below is exact:
\* duration / sample_count, duration * 0.4 and duration * offset.
MomentSecond == 300        \* 1 s
MomentTenth == 30          \* the 0.1 of "duration - segment - 0.1"
MomentShortClip == 600     \* the 2 of "if duration < 2" and of the default (0, 2)
MomentSegmentCap == 1200   \* the 4 of min(4, duration * 0.4) and of duration - 4
MomentMaxSamples == 15     \* the 15 of min(15, int(duration))

NoDuration == 0 - 1        \* video_clip is None, or video_clip.duration is None or raises
NoScore == 0 - 1           \* get_frame returned None or raised: the sample has no score

\* [(0, 2)]
DefaultMoments == <<[start |-> 0, length |-> MomentShortClip]>>

\* The segment length of the time-based fallback without its 4 s cap.
FallbackSegmentUncapped(duration) == (duration * 2) \div 5

\* segment = min(4, duration * 0.4)
FallbackSegment(duration) == Min(MomentSegmentCap, (duration * 2) \div 5)

\* The single time-based segment: start = duration * offset (offset in percent),
\* moved back to duration - segment - 0.1 when it would pass the end.
FallbackMoments(duration, offset) ==
    LET segment == FallbackSegment(duration)
        start == (duration * offset) \div 100
    IN <<[start |-> IF start + segment > duration
                    THEN Max(0, duration - segment - MomentTenth) ELSE start,
          length |-> segment]>>

RECURSIVE SampleScores(_, _, _, _, _)
\* The sampling loop from iteration i on: it ends at the first sample with
\* time + 1 > duration; a sample whose frames give no score is passed over.
SampleScores(i, sample_count, sample_interval, duration, frames) ==
    IF i >= sample_count THEN <<>>
    ELSE LET time == i * sample_interval IN
         IF time + MomentSecond > duration THEN <<>>
         ELSE LET rest == SampleScores(i + 1, sample_count, sample_interval, duration, frames)
              IN IF frames[i + 1] = NoScore THEN rest
                 ELSE <<[time |-> time, diff |-> frames[i + 1]]>> \o rest

\* sort(reverse=True) is stable: s goes after the entries whose diff is not smaller.
RECURSIVE InsertByDiff(_, _)
InsertByDiff(sorted, s) ==
    IF sorted = <<>> THEN <<s>>
    ELSE IF sorted[Len(sorted)].diff >= s.diff THEN Append(sorted, s)
    ELSE Append(InsertByDiff(SubSeq(sorted, 1, Len(sorted) - 1), s), sorted[Len(sorted)])

\* The scores left in sampling order: the sort missing.
SortByDiffMissing(scores) == scores

RECURSIVE SortByDiff(_)
\* motion_scores.sort(key=lambda x: x[1], reverse=True)
SortByDiff(scores) ==
    IF scores = <<>> THEN <<>>
    ELSE InsertByDiff(SortByDiff(SubSeq(scores, 1, Len(scores) - 1)), scores[Len(scores)])

\* One selected moment with the drawn length kept even when it passes the end.
SelectedMomentUncut(start_time, drawn, duration) ==
    [start |-> start_time, length |-> drawn]

\* One selected moment: the drawn length is kept when it fits; else the length
\* is cut to duration - start_time - 0.1, and when that is below 1 s the moment
\* is re-anchored to the last 4 s.
SelectedMoment(start_time, drawn, duration) ==
    IF start_time + drawn > duration
    THEN LET clip_duration == duration - start_time - MomentTenth IN
         IF clip_duration < MomentSecond
         THEN LET anchored == Max(0, duration - MomentSegmentCap) IN
              [start |-> anchored,
               length |-> Min(MomentSegmentCap, duration - anchored - MomentTenth)]
         ELSE [start |-> start_time, length |-> clip_duration]
    ELSE [start |-> start_time, length |-> drawn]

\* detect_interesting_moments(video_clip, num_clips): video carries the clip's
\* duration, whether the test frame could be read, the outcome of every sample,
\* and the values random.uniform returns (offset, lengths).
detect_interesting_moments(video, num_clips) ==
    LET duration == video.duration IN
    IF duration = NoDuration \/ duration <= 0 THEN DefaultMoments
    ELSE IF duration < MomentShortClip
    THEN <<[start |-> 0, length |-> Min(duration, MomentShortClip)]>>
    ELSE IF ~video.can_read_frames THEN FallbackMoments(duration, video.offset)
    ELSE LET sample_count == Min(MomentMaxSamples, duration \div MomentSecond)
             sample_interval == duration \div sample_count
             motion_scores == SampleScores(0, sample_count, sample_interval, duration,
                                           video.frames)
         IN IF motion_scores = <<>> THEN FallbackMoments(duration, video.offset)
            ELSE LET sorted == SortByDiff(motion_scores) IN
                 [i \in 1..Min(num_clips, Len(sorted)) |->
                     SelectedMoment(sorted[i].time, video.lengths[i], duration)]

\* The scored samples of a clip in the order the selection reads them.
RankedScores(video) ==
    LET sample_count == Min(MomentMaxSamples, video.duration \div MomentSecond)
    IN SortByDiff(SampleScores(0, sample_count, video.duration \div sample_count,
                               video.duration, video.frames))

\* The clip durations the analyzer is run on: unknown, 0, 1 s, 2 s, 2.5 s, 3 s,
\* 10 s and 20 s.
MomentDurations == {NoDuration, 0, 300, 600, 750, 900, 3000, 6000}

\* The outcome of one sample: no score, or the mean absolute difference.
FrameOutcomes == {NoScore, 0, 1, 2, 3}

\* The outcomes of n samples: all alike (no score at all, or the same score)
\* but for at most two samples.
FrameAssignments(n) ==
    {[i \in 1..n |-> IF i = a THEN x ELSE IF i = b THEN y ELSE base] :
        a \in 1..n, b \in 1..n, x \in FrameOutcomes, y \in FrameOutcomes,
        base \in {NoScore, 1}}

\* random.uniform(2.5, 4)
LengthDraws == {750, 900, 960, 1200}

\* random.uniform(0.1, 0.5) and random.uniform(0.15, 0.55), in percent.
OffsetDraws(can_read_frames) == IF can_read_frames THEN {15, 35, 55} ELSE {10, 30, 50}

\* A call on a clip with no usable duration or too short to sample.
ShortClipCall ==
    \E d \in {x \in MomentDurations : x < MomentShortClip}, c \in BOOLEAN :
        calc_in = [kind |-> "moments", duration |-> d, can_read_frames |-> c,
                   frames |-> <<>>, lengths |-> <<>>, offset |-> 10, num_clips |-> 2]

\* A call on a clip whose test frame cannot be read.
UnreadableCall ==
    \E d \in {x \in MomentDurations : x >= MomentShortClip}, o \in OffsetDraws(FALSE) :
        calc_in = [kind |-> "moments", duration |-> d, can_read_frames |-> FALSE,
                   frames |-> <<>>, lengths |-> <<>>, offset |-> o, num_clips |-> 2]

\* A call on a clip that is sampled: the outcome of every sample, the lengths
\* drawn for the selected moments and, when no sample is scored, the offset.
SampledCall ==
    \E d \in {x \in MomentDurations : x >= MomentShortClip} :
    \E f \in FrameAssignments(Min(MomentMaxSamples, d \div MomentSecond)) :
    \E l1 \in LengthDraws, l2 \in LengthDraws,
       l3 \in IF d = 900 THEN LengthDraws ELSE {750},
       n \in IF d = 900 THEN 1..3 ELSE {2},
       o \in IF \A i \in DOMAIN f : f[i] = NoScore THEN OffsetDraws(TRUE) ELSE {15} :
        calc_in = [kind |-> "moments", duration |-> d, can_read_frames |-> TRUE,
                   frames |-> f, lengths |-> <<l1, l2, l3>>, offset |-> o,
                   num_clips |-> n]

\* One call of detect_interesting_moments.
ApplyMoments ==
    /\ calc_in.kind = "moments"
    /\ calc_out.kind = "none"
    /\ calc_out' = [kind |-> "moments",
                    moments |-> detect_interesting_moments(calc_in, calc_in.num_clips)]
    /\ UNCHANGED <<calc_in, orchVars, reelVars>>

\* ------------------------------------------------------------------ /create: ordering
Range(s) == {s[i] : i \in DOMAIN s}

\* sorted(...) is stable: vs goes after the entries whose order is not larger.
RECURSIVE InsertByOrder(_, _)
InsertByOrder(sorted, vs) ==
    IF sorted = <<>> THEN <<vs>>
    ELSE IF sorted[Len(sorted)].order <= vs.order THEN Append(sorted, vs)
    ELSE Append(InsertByOrder(SubSeq(sorted, 1, Len(sorted) - 1), vs), sorted[Len(sorted)])

RECURSIVE SortedSettings(_)
\* sorted(video_settings, key=lambda x: x.get('order', 0))
SortedSettings(settings) ==
    IF settings = <<>> THEN <<>>
    ELSE InsertByOrder(SortedSettings(SubSeq(settings, 1, Len(settings) - 1)),
                       settings[Len(settings)])

\* The file list create_reel_endpoint hands to the thread: the files named by
\* the settings, in the order of their order field; the folder listing when no
\* setting names a file of the folder.
OrderedFiles(video_files, settings) ==
    LET named == SelectSeq(SortedSettings(settings),
                           LAMBDA vs : vs.filename \in Range(video_files))
        ordered_files == [i \in 1..Len(named) |-> named[i].filename]
    IN IF ordered_files # <<>> THEN ordered_files ELSE video_files

\* ------------------------------------------------------------------ create_reel
RECURSIVE BuildSettingsMap(_, _, _, _)
BuildSettingsMap(paths, settings, k, m) ==
    IF k > Len(settings) THEN m
    ELSE LET vs == settings[k] IN
         BuildSettingsMap(paths, settings, k + 1,
             IF vs.order < Len(paths)
             THEN [m EXCEPT ![paths[vs.order + 1]] =
                      [has |-> TRUE, trim_start |-> vs.trim_start,
                       trim_end |-> vs.trim_end, filename |-> vs.filename]]
             ELSE m)

\* settings_map of create_reel: settings_map[video_paths[vs['order']]] = vs for
\* every entry whose order is below len(video_paths).
SettingsMap(paths, settings) ==
    BuildSettingsMap(paths, settings, 1, [f \in Range(paths) |-> NoSettings])

\* The media objects of one create_reel call.
Src(i) == <<"src", i>>       \* VideoFileClip(video_paths[i])
Out(i) == <<"out", i>>       \* the subclip / resize / crop result of clip i
Concat == <<"concat", 0>>    \* concatenate_videoclips(...)
Composite == <<"composite", 0>>   \* CompositeVideoClip([final_clip] + caption_clips)
Mixed == <<"mixed", 0>>      \* final_clip.with_audio(music_clip)
Music == <<"music", 0>>      \* AudioFileClip(music_path)
Looped == <<"looped", 0>>    \* concatenate_audioclips(...).subclipped(...)

ObjIds == {Src(i) : i \in 1..2} \cup {Out(i) : i \in 1..2} \cup
          {Concat, Composite, Mixed, Music, Looped}

NoObj == <<"none", 0>>

Make(o, x) == [o EXCEPT ![x].made = TRUE]

\* x.close()
Close(o, x) == [o EXCEPT ![x].closes = o[x].closes + 1]

RECURSIVE CloseAll(_, _)
\* for clip in xs: try: clip.close() except: pass
CloseAll(o, xs) ==
    IF xs = <<>> THEN o ELSE CloseAll(Close(o, xs[1]), Tail(xs))

SrcObjs(positions) == [k \in 1..Len(positions) |-> Src(positions[k])]

OutObjs(clips) == [k \in 1..Len(clips) |-> Out(clips[k].src)]

\* "not clips_to_compile" never true: the pipeline goes on with an empty list.
NoClipsNever(clips) == FALSE

\* if not clips_to_compile
NoClips(clips) == clips = <<>>

RECURSIVE TotalSpan(_)
\* The duration of the concatenation: the spans added up.
TotalSpan(clips) ==
    IF clips = <<>> THEN 0 ELSE clips[1].span + TotalSpan(Tail(clips))

\* The durations video_clip.duration is drawn from: None (as -1), 0, a clip
\* shorter than 0.5 s, and longer ones.
ClipDurations == {0 - 1, 0, 3, MaxT}

NoFinal == [obj |-> NoObj, duration |-> 0, overlays |-> <<>>,
            music |-> [bound |-> FALSE, duration |-> 0, fade |-> FALSE, quiet |-> FALSE]]

\* The start of create_reel: settings_map is built from video_settings, which is
\* not read again (the model drops the list once the map is built).
BuildSettings ==
    /\ rpc = "start"
    /\ settings_map' = SettingsMap(video_paths, video_settings)
    /\ video_settings' = <<>>
    /\ rpc' = "transform"
    /\ UNCHANGED <<video_paths, idx, objs, clips_to_compile, source_clips, audio_clips,
                   final_clip, reel_exc, encoderCalls, feature_errors, orchVars, calcVars>>

\* The loop with source_clips.append(video_clip) placed before the transforms: a
\* clip whose resize or crop fails keeps its source handle in the list.
ProcessClipKeepsFailed ==
    /\ rpc = "transform"
    /\ idx <= Len(video_paths)
    /\ idx' = idx + 1
    /\ \E exists, loadOK, subclipOK, transformOK, closeRaises \in BOOLEAN,
          duration \in ClipDurations :
         LET vs == settings_map[video_paths[idx]]
             w == TrimWindow(vs, duration)
             skipClose == IF closeRaises THEN Close(Close(Make(objs, Src(idx)), Src(idx)), Src(idx))
                          ELSE Close(Make(objs, Src(idx)), Src(idx))
         IN
         IF ~exists \/ ~loadOK
         THEN UNCHANGED <<objs, clips_to_compile, source_clips>>
         ELSE IF duration <= 0 \/ w.skipped \/ ~subclipOK
         THEN /\ objs' = skipClose
              /\ UNCHANGED <<clips_to_compile, source_clips>>
         ELSE IF ~transformOK
         THEN /\ objs' = Make(Make(objs, Src(idx)), Out(idx))
              /\ source_clips' = Append(source_clips, idx)
              /\ UNCHANGED clips_to_compile
         ELSE /\ objs' = Make(Make(objs, Src(idx)), Out(idx))
              /\ clips_to_compile' = Append(clips_to_compile,
                                            [src |-> idx, span |-> w.trim_end - w.trim_start])
              /\ source_clips' = Append(source_clips, idx)
    /\ UNCHANGED <<video_paths, video_settings, settings_map, rpc, audio_clips, final_clip, reel_exc,
                   encoderCalls, feature_errors, orchVars, calcVars>>

\* One iteration of "for i, video_path in enumerate(video_paths)".
ProcessClip ==
    /\ rpc = "transform"
    /\ idx <= Len(video_paths)
    /\ idx' = idx + 1
    /\ \E exists, loadOK, subclipOK, transformOK, closeRaises \in BOOLEAN,
          duration \in ClipDurations :
         LET vs == settings_map[video_paths[idx]]
             w == TrimWindow(vs, duration)
             \* video_clip.close() before "continue"; when it raises, the except
             \* branch closes the handle again (it is not in source_clips).
             skipClose == IF closeRaises THEN Close(Close(Make(objs, Src(idx)), Src(idx)), Src(idx))
                          ELSE Close(Make(objs, Src(idx)), Src(idx))
         IN
         IF ~exists \/ ~loadOK
         THEN UNCHANGED <<objs, clips_to_compile, source_clips>>
         ELSE IF duration <= 0 \/ w.skipped \/ ~subclipOK
         THEN /\ objs' = skipClose
              /\ UNCHANGED <<clips_to_compile, source_clips>>
         ELSE IF ~transformOK
         THEN \* resized / without_audio / cropped raised: the except branch
              \* closes video_clip; the subclip object is dropped.
              /\ objs' = Close(Make(Make(objs, Src(idx)), Out(idx)), Src(idx))
              /\ UNCHANGED <<clips_to_compile, source_clips>>
         ELSE /\ objs' = Make(Make(objs, Src(idx)), Out(idx))
              /\ clips_to_compile' = Append(clips_to_compile,
                                            [src |-> idx, span |-> w.trim_end - w.trim_start])
              /\ source_clips' = Append(source_clips, idx)
    /\ UNCHANGED <<video_paths, video_settings, settings_map, rpc, audio_clips, final_clip, reel_exc,
                   encoderCalls, feature_errors, orchVars, calcVars>>

\* The loop is over.
TransformDone ==
    /\ rpc = "transform"
    /\ idx > Len(video_paths)
    /\ rpc' = "check"
    /\ UNCHANGED <<video_paths, video_settings, settings_map, idx, objs, clips_to_compile, source_clips,
                   audio_clips, final_clip, reel_exc, encoderCalls, feature_errors, orchVars, calcVars>>

\* if not clips_to_compile: close source_clips, raise Exception("No clips ...")
CheckClips ==
    /\ rpc = "check"
    /\ IF NoClips(clips_to_compile)
       THEN /\ objs' = CloseAll(objs, SrcObjs(source_clips))
            /\ reel_exc' = NoClipsMsg
            /\ rpc' = "raised"
       ELSE /\ rpc' = "concat"
            /\ UNCHANGED <<objs, reel_exc>>
    /\ UNCHANGED <<video_paths, video_settings, settings_map, idx, clips_to_compile, source_clips,
                   audio_clips, final_clip, encoderCalls, feature_errors, orchVars, calcVars>>

\* final_clip = concatenate_videoclips(clips_to_compile, method="compose"); on
\* an error the source handles are closed and the error is raised again.
ConcatClips ==
    /\ rpc = "concat"
    /\ \E ok \in BOOLEAN :
         IF ok
         THEN /\ objs' = Make(objs, Concat)
              /\ final_clip' = [NoFinal EXCEPT !.obj = Concat,
                                               !.duration = TotalSpan(clips_to_compile)]
              /\ rpc' = "captions"
              /\ UNCHANGED reel_exc
         ELSE /\ objs' = CloseAll(objs, SrcObjs(source_clips))
              /\ reel_exc' = ConcatMsg
              /\ rpc' = "raised"
              /\ UNCHANGED final_clip
    /\ UNCHANGED <<video_paths, video_settings, settings_map, idx, clips_to_compile, source_clips,
                   audio_clips, encoderCalls, feature_errors, orchVars, calcVars>>

RECURSIVE CaptionOverlays(_, _)
\* caption_clips: one overlay per caption with a non-empty text, with its
\* validated times.
CaptionOverlays(caps, duration) ==
    IF caps = <<>> THEN <<>>
    ELSE LET cap == caps[1]
             st == CaptionStart(cap.startTime, duration)
             et == CaptionEnd(cap.endTime, st, duration)
             rest == CaptionOverlays(Tail(caps), duration)
         IN IF cap.text THEN <<[start_time |-> st, end_time |-> et]>> \o rest ELSE rest

RECURSIVE LastEnd(_)
\* The latest end of the overlays.
LastEnd(overlays) ==
    IF overlays = <<>> THEN 0 ELSE Max(overlays[1].end_time, LastEnd(Tail(overlays)))

\* The captions a request carries: text present or blank, and the times sent.
CaptionEntries ==
    {[text |-> FALSE, startTime |-> 0, endTime |-> 4],
     [text |-> TRUE, startTime |-> 0, endTime |-> 4],
     [text |-> TRUE, startTime |-> 4 * MaxT, endTime |-> 4 * MaxT]}

CaptionLists ==
    {<<>>} \cup {<<c>> : c \in CaptionEntries} \cup
    {<<c, d>> : c \in {e \in CaptionEntries : ~e.text}, d \in CaptionEntries}

\* The caption block: any error inside it is caught and the timeline stays as it
\* was; otherwise the overlays are composited (the composite lasts until its
\* last clip ends).
AddCaptions ==
    /\ rpc = "captions"
    /\ rpc' = "music"
    /\ \E captions \in CaptionLists, fails \in BOOLEAN :
         LET caption_clips == CaptionOverlays(captions, final_clip.duration) IN
         IF captions = <<>>
         THEN UNCHANGED <<objs, final_clip, feature_errors>>
         ELSE IF fails
         THEN /\ feature_errors' = feature_errors \cup {"captions"}
              /\ UNCHANGED <<objs, final_clip>>
         ELSE IF caption_clips = <<>>
         THEN UNCHANGED <<objs, final_clip, feature_errors>>
         ELSE /\ objs' = Make(objs, Composite)
              /\ final_clip' = [final_clip EXCEPT
                     !.obj = Composite,
                     !.overlays = caption_clips,
                     !.duration = Max(final_clip.duration, LastEnd(caption_clips))]
              /\ UNCHANGED feature_errors
    /\ UNCHANGED <<video_paths, video_settings, settings_map, idx, clips_to_compile, source_clips,
                   audio_clips, reel_exc, encoderCalls, orchVars, calcVars>>

\* The durations music_clip.duration is drawn from.
MusicDurations == {2, 5, MaxT, 4 * MaxT}

\* The music block.  Errors of the fade and of the volume effect are caught on
\* their own; any other error leaves the timeline with the audio it had.
AddMusic ==
    /\ rpc = "music"
    /\ rpc' = "encode"
    /\ \E given, exists, decodeOK, loopOK, fadeOK, volOK, bindOK \in BOOLEAN,
          M \in MusicDurations, music_fade \in {0, 20} :
         LET mix == MusicMix(M, final_clip.duration) IN
         IF ~(given /\ exists)
         THEN UNCHANGED <<objs, audio_clips, final_clip, feature_errors>>
         ELSE IF ~decodeOK
         THEN /\ feature_errors' = feature_errors \cup {"music"}
              /\ UNCHANGED <<objs, audio_clips, final_clip>>
         ELSE IF M < final_clip.duration /\ ~(loopOK /\ mix.bound)
         THEN /\ objs' = Make(objs, Music)
              /\ audio_clips' = Append(audio_clips, Music)
              /\ feature_errors' = feature_errors \cup {"music"}
              /\ UNCHANGED final_clip
         ELSE IF ~mix.bound \/ ~bindOK
         THEN /\ objs' = IF M < final_clip.duration
                         THEN Make(Make(objs, Music), Looped) ELSE Make(objs, Music)
              /\ audio_clips' = IF M < final_clip.duration
                                THEN audio_clips \o <<Music, Looped>>
                                ELSE Append(audio_clips, Music)
              /\ feature_errors' = feature_errors \cup {"music"}
              /\ UNCHANGED final_clip
         ELSE /\ objs' = IF M < final_clip.duration
                         THEN Make(Make(Make(objs, Music), Looped), Mixed)
                         ELSE Make(Make(objs, Music), Mixed)
              /\ audio_clips' = IF M < final_clip.duration
                                THEN audio_clips \o <<Music, Looped>>
                                ELSE Append(audio_clips, Music)
              /\ feature_errors' = feature_errors \cup
                     (IF music_fade > 0 /\ ~fadeOK THEN {"fade"} ELSE {}) \cup
                     (IF ~volOK THEN {"volume"} ELSE {})
              /\ final_clip' = [final_clip EXCEPT
                     !.obj = Mixed,
                     !.music = [bound |-> TRUE, duration |-> mix.duration,
                                fade |-> music_fade > 0 /\ fadeOK, quiet |-> volOK]]
    /\ UNCHANGED <<video_paths, video_settings, settings_map, idx, clips_to_compile, source_clips,
                   reel_exc, encoderCalls, orchVars, calcVars>>

\* The session the thread renders for.
ReelSession == CHOOSE s \in Sessions : TRUE

\* final_clip.write_videofile(...); on an error the source and audio handles
\* are closed and the error is raised again (a partial file may stay behind).
Encode ==
    /\ rpc = "encode"
    /\ encoderCalls' = encoderCalls + 1
    /\ \E ok, partial \in BOOLEAN :
         IF ok
         THEN /\ outputs' = outputs \cup {ReelSession}
              /\ rpc' = "release"
              /\ UNCHANGED <<objs, reel_exc>>
         ELSE /\ outputs' = IF partial THEN outputs \cup {ReelSession} ELSE outputs
              /\ objs' = CloseAll(CloseAll(objs, SrcObjs(source_clips)), audio_clips)
              /\ reel_exc' = EncodeMsg
              /\ rpc' = "raised"
    /\ UNCHANGED <<video_paths, video_settings, settings_map, idx, clips_to_compile, source_clips,
                   audio_clips, final_clip, feature_errors, calcVars,
                   uploads, musicFiles, job_status, job_results, workers, pollers,
                   nsub, npoll, lastSubmit>>

\* The release after a successful encode: final_clip.close() stands outside any
\* try block; the loops over clips_to_compile, source_clips and audio_clips
\* swallow the errors of their close() calls.
Release ==
    /\ rpc = "release"
    /\ \E closeRaises \in BOOLEAN :
         IF closeRaises
         THEN /\ objs' = Close(objs, final_clip.obj)
              /\ reel_exc' = CloseMsg
              /\ rpc' = "raised"
         ELSE /\ objs' = CloseAll(Close(objs, final_clip.obj),
                                  OutObjs(clips_to_compile) \o SrcObjs(source_clips)
                                      \o audio_clips)
              /\ rpc' = "returned"
              /\ UNCHANGED reel_exc
    /\ UNCHANGED <<video_paths, video_settings, settings_map, idx, clips_to_compile, source_clips,
                   audio_clips, final_clip, encoderCalls, feature_errors, orchVars, calcVars>>

\* create_reel_async after create_reel: job_status[session_id] = ...
AsyncWriteStatus ==
    /\ rpc \in {"returned", "raised"}
    /\ job_status' = [job_status EXCEPT ![ReelSession] = TerminalStatus(reel_exc)]
    /\ rpc' = "write_result"
    /\ UNCHANGED <<video_paths, video_settings, settings_map, idx, objs, clips_to_compile, source_clips,
                   audio_clips, final_clip, reel_exc, encoderCalls, feature_errors, calcVars,
                   uploads, musicFiles, outputs, job_results, workers, pollers,
                   nsub, npoll, lastSubmit>>

\* create_reel_async: job_results[session_id] = ...
AsyncWriteResult ==
    /\ rpc = "write_result"
    /\ job_results' = [job_results EXCEPT ![ReelSession] =
                           TerminalResult(ReelSession, reel_exc)]
    /\ rpc' = "finished"
    /\ UNCHANGED <<video_paths, video_settings, settings_map, idx, objs, clips_to_compile, source_clips,
                   audio_clips, final_clip, reel_exc, encoderCalls, feature_errors, calcVars,
                   uploads, musicFiles, outputs, job_status, workers, pollers,
                   nsub, npoll, lastSubmit>>

\* ------------------------------------------------------------------ specification
CalcIdle ==
    /\ calc_in = [kind |-> "idle"]
    /\ calc_out = [kind |-> "none"]

InitOrch ==
    /\ uploads = [s \in Sessions |-> "none"]
    /\ musicFiles = {}
    /\ outputs = {}
    /\ job_status = [s \in Sessions |-> "absent"]
    /\ job_results = [s \in Sessions |-> NoResult]
    /\ workers = [w \in JobIds |-> IdleWorker]
    /\ pollers = [p \in PollIds |-> IdlePoller]
    /\ nsub = 0
    /\ npoll = 0
    /\ lastSubmit = NoSubmit

ReelIdle ==
    /\ video_paths = <<>>
    /\ video_settings = <<>>
    /\ settings_map = <<>>
    /\ rpc = "idle"
    /\ idx = 1
    /\ objs = [x \in ObjIds |-> [made |-> FALSE, closes |-> 0]]
    /\ clips_to_compile = <<>>
    /\ source_clips = <<>>
    /\ audio_clips = <<>>
    /\ final_clip = NoFinal
    /\ reel_exc = ""
    /\ encoderCalls = 0
    /\ feature_errors = {}

Init == InitOrch /\ ReelIdle /\ CalcIdle

\* The steps of every thread but the /create handler's first one.
OtherSteps ==
    \/ \E s \in Sessions : Upload(s)
    \/ \E m \in MusicPaths : UploadMusic(m)
    \/ ClearStorage
    \/ \E w \in JobIds : Launch(w)
    \/ \E w \in JobIds : WorkerRun(w)
    \/ \E w \in JobIds : WorkerRelease(w)
    \/ \E w \in JobIds : WorkerWriteStatus(w)
    \/ \E w \in JobIds : WorkerWriteResult(w)
    \/ \E s \in Sessions : PollStart(s)
    \/ \E p \in PollIds : PollGetResult(p)
    \/ \E p \in PollIds : PollPopStatus(p)
    \/ \E p \in PollIds : PollPopResult(p)
    \/ \E p \in PollIds : PollExists(p)

Next ==
    \/ OtherSteps
    \/ \E sid \in Sessions \cup {NoSid}, music \in MusicInputs :
          Submit(sid, music[1], music[2])

Spec == Init /\ [][Next]_vars

\* The orchestrator with every /create request observed.
NextCreate ==
    \/ OtherSteps
    \/ \E sid \in Sessions \cup {NoSid}, music \in MusicInputs :
          SubmitObserved(sid, music[1], music[2])

SpecCreate == Init /\ [][NextCreate]_vars

\* The scheduler runs every started thread: a worker thread that can take its
\* next step eventually takes it.
WorkerFairness ==
    \A w \in JobIds :
        /\ WF_vars(Launch(w))
        /\ WF_vars(WorkerRun(w))
        /\ WF_vars(WorkerRelease(w))
        /\ WF_vars(WorkerWriteStatus(w))
        /\ WF_vars(WorkerWriteResult(w))

FairSpec == Spec /\ WorkerFairness

\* The Clip Settings a request carries.
SettingsEntries ==
    [order : 0..2, filename : {"a", "b", "x"}, trim_start : {0, 6}, trim_end : {2, 9}]

SettingsLists ==
    {<<>>} \cup {<<e>> : e \in SettingsEntries} \cup
    {<<e, f>> : e \in SettingsEntries, f \in SettingsEntries}

\* os.listdir of the session folder, in the order the file system gives.
FolderListings == {<<"a">>, <<"a", "b">>, <<"b", "a">>}

\* One accepted render request in detail: the endpoint recorded processing and
\* started the thread with the ordered file list and the settings as sent.
InitReel ==
    /\ uploads = [s \in Sessions |-> "videos"]
    /\ musicFiles = {}
    /\ outputs = {}
    /\ job_status = [s \in Sessions |-> IF s = ReelSession THEN "processing" ELSE "absent"]
    /\ job_results = [s \in Sessions |-> NoResult]
    /\ workers = [w \in JobIds |-> IdleWorker]
    /\ pollers = [p \in PollIds |-> IdlePoller]
    /\ nsub = 1
    /\ npoll = 0
    /\ lastSubmit = NoSubmit
    /\ CalcIdle
    /\ video_settings \in SettingsLists
    /\ \E video_files \in FolderListings :
          video_paths = OrderedFiles(video_files, video_settings)
    /\ settings_map = <<>>
    /\ rpc = "start"
    /\ idx = 1
    /\ objs = [x \in ObjIds |-> [made |-> FALSE, closes |-> 0]]
    /\ clips_to_compile = <<>>
    /\ source_clips = <<>>
    /\ audio_clips = <<>>
    /\ final_clip = NoFinal
    /\ reel_exc = ""
    /\ encoderCalls = 0
    /\ feature_errors = {}

NextReel ==
    \/ BuildSettings
    \/ ProcessClip
    \/ TransformDone
    \/ CheckClips
    \/ ConcatClips
    \/ AddCaptions
    \/ AddMusic
    \/ Encode
    \/ Release
    \/ AsyncWriteStatus
    \/ AsyncWriteResult

SpecReel == InitReel /\ [][NextReel]_vars

\* The arithmetic of create_reel, each computation on inputs of its own.
InitCalc ==
    /\ InitOrch
    /\ ReelIdle
    /\ calc_in \in TrimInputs \cup CaptionInputs \cup MixInputs
    /\ calc_out = [kind |-> "none"]

NextCalc == ApplyTrim \/ ApplyCaption \/ ApplyMusic

SpecCalc == InitCalc /\ [][NextCalc]_vars

\* The motion analyzer, each call on inputs of its own.
InitMoments ==
    /\ InitOrch
    /\ ReelIdle
    /\ (ShortClipCall \/ UnreadableCall \/ SampledCall)
    /\ calc_out = [kind |-> "none"]

NextMoments == ApplyMoments

SpecMoments == InitMoments /\ [][NextMoments]_vars

\* ------------------------------------------------------------------ claims

\* The polls that answered with a terminal result read from the job record.
Delivered(s) ==
    {p \in PollIds : /\ pollers[p].pc = "done"
                     /\ pollers[p].sid = s
                     /\ pollers[p].fromRecord
                     /\ pollers[p].payload \notin
                            {EmptyPayload, ErrorPayload(UnknownErrorMsg)}}

\* The jobs of session s whose worker has recorded its terminal result.
Finished(s) == {w \in JobIds : workers[w].sid = s /\ workers[w].pc = "done"}

\* C1: the terminal result of a render job is delivered at most once: the polls
\* that returned a terminal result from the record of a session are never more
\* than the jobs of that session that recorded one.
C1_AtMostOnceDelivery ==
    \A s \in Sessions : Cardinality(Delivered(s)) <= Cardinality(Finished(s))

\* C2: every accepted render request reaches a terminal state: a record that is
\* processing is eventually completed or failed.
C2_EventuallyTerminal ==
    \A s \in Sessions : (job_status[s] = "processing") ~> (job_status[s] \in Terminal)

\* C2 witness: a worker whose create_reel raised has recorded failed.
C2_Witness ==
    \E w \in JobIds : /\ workers[w].pc = "write_result"
                       /\ workers[w].exc # ""
                       /\ job_status[workers[w].sid] = "failed"

\* The transitions of one job record the state machine allows.
LifecycleStep(a, b) ==
    \/ a = b
    \/ a = "absent" /\ b = "processing"
    \/ a = "processing" /\ b \in Terminal
    \/ a \in Terminal /\ b = "absent"

\* C3: the job record only follows absent -> processing -> completed | failed,
\* and a terminal record changes only by being cleared.
C3_LifecycleOnly ==
    [][\A s \in Sessions : LifecycleStep(job_status[s], job_status'[s])]_vars

\* The error messages a pipeline exception can carry.
PipelineMessages == {NoClipsMsg, ConcatMsg, EncodeMsg, CloseMsg}

\* C4: a poll that reports completed from the job record carries the success
\* payload with the session's download reference, and one that reports failed
\* carries the error message captured from the pipeline exception.
C4_PayloadMatchesStatus ==
    \A p \in PollIds :
        (pollers[p].pc = "done" /\ pollers[p].fromRecord) =>
            /\ pollers[p].response = "completed" =>
                   pollers[p].payload = SuccessPayload(pollers[p].sid)
            /\ pollers[p].response = "failed" =>
                   \E m \in PipelineMessages : pollers[p].payload = ErrorPayload(m)

\* The request r is one of the input errors: no session id, an unknown session
\* folder, no valid video file, a local music file that does not exist.
IsInputError(r) ==
    \/ r.sid = NoSid
    \/ uploads[r.sid] = "none"
    \/ uploads[r.sid] = "empty"
    \/ r.source = "local" /\ r.path # NoPath /\ r.path \notin musicFiles

\* C5: a /create request with an input error is answered with an error, leaves
\* the job status and result maps unchanged and launches no worker.
C5_InputErrorsRejected ==
    [][(lastSubmit' # lastSubmit /\ IsInputError(lastSubmit')) =>
           /\ lastSubmit'.error # ""
           /\ UNCHANGED <<job_status, job_results, workers, nsub>>]_vars

\* C5 witness: a request was rejected for its missing music file while a job
\* of the session was recorded.
C5_Witness ==
    /\ lastSubmit.error = "Music file not found"
    /\ \E s \in Sessions : job_status[s] = "processing"

\* C8: the span of the trim window applied to a clip is never negative and never
\* below 0.5 s, and a clip whose window is shorter than 0.5 s is skipped.
C8_TrimSpanAtLeastMinimum ==
    calc_out.kind = "trim" =>
        LET w == calc_out.window IN
        /\ ~w.skipped => w.trim_end - w.trim_start >= 5
        /\ w.trim_end - w.trim_start < 5 => w.skipped

\* C8 witness: a clip without settings and shorter than 0.5 s was skipped.
C8_Witness ==
    /\ calc_out.kind = "trim"
    /\ calc_out.window.skipped
    /\ calc_in.duration < 5

\* C9: every caption overlay has start_time >= 0, end_time <= timeline duration
\* and end_time - start_time >= 0.1 s.
C9_CaptionInsideTimeline ==
    calc_out.kind = "caption" =>
        /\ calc_out.start_time >= 0
        /\ calc_out.end_time <= calc_in.duration
        /\ calc_out.end_time - calc_out.start_time >= 1

\* C10: the music bound to the timeline has duration exactly F; a track shorter
\* than F is repeated int(F/M)+1 times, which covers F.
C10_MusicMatchesTimeline ==
    calc_out.kind = "music" =>
        LET m == calc_out.mix IN
        /\ m.bound
        /\ m.duration = calc_in.F
        /\ m.covered = calc_in.F
        /\ calc_in.M < calc_in.F =>
              /\ m.loops = (calc_in.F \div calc_in.M) + 1
              /\ m.loops * calc_in.M >= calc_in.F

\* C10 witness: a track shorter than the timeline, not dividing it, was looped.
C10_Witness ==
    /\ calc_out.kind = "music"
    /\ calc_in.M < calc_in.F
    /\ calc_in.F % calc_in.M # 0
    /\ calc_out.mix.loops >= 2

\* create_reel is over: it returned or raised.
ReelOver == rpc \in {"returned", "raised", "write_result", "finished"}

\* C6: when no clip survives the transform stage, create_reel raises the
\* no-clips error before any concatenation, the job becomes failed with that
\* message, and the encoder is never called, so the job writes no artifact.
C6_NoClipsFailsJob ==
    (rpc \notin {"start", "transform", "check"} /\ clips_to_compile = <<>>) =>
        /\ ReelOver
        /\ reel_exc = "No clips could be extracted from any video"
        /\ ~objs[Concat].made
        /\ encoderCalls = 0
        /\ ReelSession \notin outputs
        /\ rpc \in {"write_result", "finished"} => job_status[ReelSession] = "failed"
        /\ rpc = "finished" =>
               job_results[ReelSession].error = "No clips could be extracted from any video"

\* C6 witness: every input was opened and skipped, and the job ended failed.
C6_Witness ==
    /\ rpc = "finished"
    /\ clips_to_compile = <<>>
    /\ Len(video_paths) = 2
    /\ objs[Src(1)].made /\ objs[Src(2)].made
    /\ job_status[ReelSession] = "failed"

\* C7: every source handle create_reel opened is closed exactly once on every
\* exit path: none is closed twice, and none is still open when create_reel
\* returns or raises.
C7_SourceHandlesClosedOnce ==
    \A i \in 1..2 :
        /\ objs[Src(i)].closes <= 1
        /\ (ReelOver /\ objs[Src(i)].made) => objs[Src(i)].closes = 1

\* The analyzer ran on a clip whose test frame and every sampled frame decoded.
FullyDecoded ==
    /\ calc_out.kind = "moments"
    /\ calc_in.can_read_frames
    /\ calc_in.frames # <<>>
    /\ \A i \in DOMAIN calc_in.frames : calc_in.frames[i] # NoScore

\* C11: on a fully decodable clip of 10 s with the default N = 2 the analyzer
\* returns exactly 2 moments, each with a length in [2.5 s, 4 s] and with
\* start + length <= 10 s, whatever the motion scores and the drawn lengths.
C11_TenSecondClipTwoMoments ==
    (FullyDecoded /\ calc_in.duration = 3000 /\ calc_in.num_clips = 2) =>
        /\ Len(calc_out.moments) = 2
        /\ \A k \in DOMAIN calc_out.moments :
              /\ calc_out.moments[k].length >= 750
              /\ calc_out.moments[k].length <= 1200
              /\ calc_out.moments[k].start + calc_out.moments[k].length <= 3000

\* C12: on a clip of at least 2 s whose frames cannot be read the analyzer
\* returns exactly one moment, of length min(4 s, 40% of the duration), with
\* start >= 0 and start + length <= duration, for every offset in [10%, 50%].
C12_UnreadableClipOneSegment ==
    (calc_out.kind = "moments" /\ ~calc_in.can_read_frames /\ calc_in.duration >= 600) =>
        /\ Len(calc_out.moments) = 1
        /\ LET m == calc_out.moments[1] IN
           /\ m.length = IF 1200 * 5 <= calc_in.duration * 2 THEN 1200
                         ELSE (calc_in.duration * 2) \div 5
           /\ m.length <= 1200
           /\ m.start >= 0
           /\ m.start + m.length <= calc_in.duration

\* C12 witness: the analyzer answered for an unreadable clip of 20 s with the
\* largest offset.
C12_Witness ==
    /\ calc_out.kind = "moments"
    /\ ~calc_in.can_read_frames
    /\ calc_in.duration = 6000
    /\ calc_in.offset = 50
    /\ calc_out.moments[1].start = 3000

\* C13: a status poll that finds the record processing reports processing and
\* leaves the job status map, the job result map and the artifacts unchanged.
C13_ProcessingPollChangesNothing ==
    [][(npoll' = npoll + 1 /\ job_status[pollers'[npoll'].sid] = "processing") =>
           /\ pollers'[npoll'].pc = "done"
           /\ pollers'[npoll'].response = "processing"
           /\ pollers'[npoll'].payload = EmptyPayload
           /\ UNCHANGED <<job_status, job_results, outputs>>]_vars

\* C13 witness: a poll answered processing while the worker of that session had
\* already written an artifact.
C13_Witness ==
    \E p \in PollIds :
        /\ pollers[p].pc = "done"
        /\ pollers[p].response = "processing"
        /\ job_status[pollers[p].sid] = "processing"
        /\ pollers[p].sid \in outputs

\* C14: a status poll that finds no record for the session id reports
\* completed with the download reference exactly when outputs/<sid>.mp4
\* exists and not_found otherwise, and creates no job record.
C14_AbsentRecordFallsBackToArtifact ==
    [][/\ (npoll' = npoll + 1 /\ job_status[pollers'[npoll'].sid] = "absent") =>
              /\ pollers'[npoll'].pc = "exists"
              /\ UNCHANGED <<job_status, job_results>>
       /\ \A p \in PollIds :
              (pollers[p].pc = "exists" /\ pollers'[p].pc = "done") =>
                  /\ pollers[p].sid \in outputs =>
                         /\ pollers'[p].response = "completed"
                         /\ pollers'[p].payload.download_url = pollers[p].sid
                  /\ pollers[p].sid \notin outputs =>
                         /\ pollers'[p].response = "not_found"
                         /\ pollers'[p].payload = EmptyPayload
                  /\ UNCHANGED <<job_status, job_results>>]_vars

\* C14 witness: a poll for a session with no record answered completed from
\* the artifact on disk.
C14_Witness ==
    \E p \in PollIds :
        /\ pollers[p].pc = "done"
        /\ ~pollers[p].fromRecord
        /\ pollers[p].response = "completed"
        /\ pollers[p].payload.download_url = pollers[p].sid
        /\ job_status[pollers[p].sid] = "absent"

\* create_reel is over and write_videofile had returned without an error.
EncodeSucceeded == ReelOver /\ encoderCalls = 1 /\ reel_exc # EncodeMsg

\* C15: an error of a best-effort feature (captions, music, fade, volume) never
\* fails the job: when a clip survived and the encode succeeds, create_reel
\* returns and the job becomes completed, with the failed feature left out.
C15_FeatureErrorsNeverFail ==
    /\ "captions" \in feature_errors =>
           final_clip.overlays = <<>> /\ ~objs[Composite].made
    /\ "music" \in feature_errors => ~final_clip.music.bound /\ ~objs[Mixed].made
    /\ "fade" \in feature_errors => final_clip.music.bound /\ ~final_clip.music.fade
    /\ "volume" \in feature_errors => final_clip.music.bound /\ ~final_clip.music.quiet
    /\ (feature_errors # {} /\ EncodeSucceeded) =>
           /\ reel_exc = ""
           /\ rpc \in {"write_result", "finished"} => job_status[ReelSession] = "completed"

\* The intermediate objects of create_reel: the transform outputs, the
\* concatenated timeline and the music audio handles.
Intermediates == {Out(i) : i \in 1..2} \cup {Concat, Music, Looped}

\* C16: no intermediate clip object is left unreleased when create_reel returns
\* or raises, on any exit path.
C16_IntermediatesReleased ==
    ReelOver => \A x \in Intermediates : objs[x].made => objs[x].closes >= 1

\* The handles the release after the encode goes over.
ReleaseList ==
    <<final_clip.obj>> \o OutObjs(clips_to_compile) \o SrcObjs(source_clips) \o audio_clips

\* C17: after a successful encode every handle is released exactly once and an
\* error of a single release is ignored: the other handles are still released
\* and the job does not become failed.
C17_ReleaseAfterEncode ==
    EncodeSucceeded =>
        /\ \A k \in DOMAIN ReleaseList : objs[ReleaseList[k]].closes = 1
        /\ reel_exc = ""
        /\ rpc \in {"write_result", "finished"} => job_status[ReelSession] = "completed"

\* C18: the trim window handed to the subclip operation lies inside the clip:
\* 0 <= trim_start <= trim_end <= duration.
C18_TrimWindowInsideClip ==
    (calc_out.kind = "trim" /\ ~calc_out.window.skipped) =>
        /\ 0 <= calc_out.window.trim_start
        /\ calc_out.window.trim_start <= calc_out.window.trim_end
        /\ calc_out.window.trim_end <= calc_in.duration

\* The entries of the settings list that name the file f.
EntriesFor(settings, f) == {k \in DOMAIN settings : settings[k].filename = f}

\* C19: every file is trimmed with the Clip Settings entry that names it: the
\* settings create_reel looks up for a file are those of an entry whose filename
\* is that file, and a file no entry names has no settings (full duration).
C19_TrimUsesMatchingSettings ==
    [][(rpc = "start" /\ rpc' = "transform") =>
          \A f \in Range(video_paths) :
              LET es == EntriesFor(video_settings, f) IN
              /\ es = {} => ~settings_map'[f].has
              /\ es # {} =>
                    \E k \in es :
                        /\ settings_map'[f].has
                        /\ settings_map'[f].filename = f
                        /\ settings_map'[f].trim_start = video_settings[k].trim_start
                        /\ settings_map'[f].trim_end = video_settings[k].trim_end]_vars

\* The inputs before position idx that came through the transform stage: their
\* transform output exists and their source handle was not closed.
Survivors == {i \in 1..(idx - 1) : objs[Out(i)].made /\ objs[Src(i)].closes = 0}

\* C20: the transform stage skips a failing clip and goes on: the clips handed
\* to concatenation are exactly the surviving inputs, in input order, each at
\* least 0.5 s long, and source_clips lists the same inputs in the same order.
C20_TransformFailsSoft ==
    /\ Len(source_clips) = Len(clips_to_compile)
    /\ \A k \in DOMAIN clips_to_compile :
          /\ clips_to_compile[k].src = source_clips[k]
          /\ clips_to_compile[k].span >= 5
    /\ \A k, l \in DOMAIN clips_to_compile :
          k < l => clips_to_compile[k].src < clips_to_compile[l].src
    /\ rpc \in {"transform", "check", "concat"} =>
          {clips_to_compile[k].src : k \in DOMAIN clips_to_compile} = Survivors
    /\ rpc \in {"check", "concat"} => idx = Len(video_paths) + 1

\* C20 witness: the first of two inputs failed in resize or crop, the second
\* came through, and the list goes to concatenation.
C20_Witness ==
    /\ rpc = "concat"
    /\ Len(video_paths) = 2
    /\ objs[Out(1)].made /\ objs[Src(1)].closes = 1
    /\ Len(clips_to_compile) = 1
    /\ clips_to_compile[1].src = 2
    /\ source_clips = <<2>>

\* C21: an accepted submit records processing before its worker is launched:
\* every write of processing is made by a handler whose thread is not started
\* yet, the handler's step ends with the pipeline not begun, and no step of a
\* launched worker is followed or accompanied by that submit's processing write
\* (a worker's steps never write processing, and its terminal write comes after
\* its launch).
C21_ProcessingBeforeLaunch ==
    [][/\ \A w \in JobIds :
              (workers[w].pc = "unused" /\ workers'[w].pc # "unused") =>
                  /\ w = nsub + 1
                  /\ workers'[w].pc = "unstarted"
                  /\ job_status'[workers'[w].sid] = "processing"
       /\ \A s \in Sessions :
              (job_status'[s] = "processing" /\ job_status[s] # "processing") =>
                  /\ nsub' = nsub + 1
                  /\ workers[nsub'].pc = "unused"
                  /\ workers'[nsub'] = [sid |-> s, pc |-> "unstarted", exc |-> ""]
       /\ \A w \in JobIds :
              (workers[w].pc # "unused" /\ workers'[w].pc # workers[w].pc) =>
                  /\ \A s \in Sessions :
                         job_status'[s] = "processing" => job_status[s] = "processing"
                  /\ workers'[w].pc = "write_result" =>
                         /\ workers[w].pc = "write_status"
                         /\ job_status'[workers[w].sid] \in Terminal]_vars

\* C21 witness: the worker of the only accepted request has written completed
\* over the processing its submit recorded.
C21_Witness ==
    /\ nsub = 1
    /\ workers[1].pc = "write_result"
    /\ job_status[workers[1].sid] = "completed"

\* The samples of the analyzed clip that have a score, by their position.
ScoredSamples == {i \in DOMAIN calc_in.frames : calc_in.frames[i] # NoScore}

\* The timestamp of the sample at position i.
SampleTime(i) == (i - 1) * (calc_in.duration \div Len(calc_in.frames))

\* C22: when at least one sample has a score, the analyzer returns exactly
\* min(N, number of scored samples) moments; the k-th moment belongs to the
\* sample with the k-th highest score (it starts at that sample's timestamp, or
\* at the re-anchored start when the sample lies in the last 1.1 s); at most 15
\* timestamps are sampled, and a sample without a score is never selected.
C22_TopScoredSamplesSelected ==
    (calc_out.kind = "moments" /\ calc_in.can_read_frames /\ ScoredSamples # {}) =>
        LET ranked == RankedScores(calc_in)
            moments == calc_out.moments
        IN
        /\ Len(calc_in.frames) <= 15
        /\ Len(ranked) = Cardinality(ScoredSamples)
        /\ \A i \in ScoredSamples :
               \E k \in DOMAIN ranked :
                   ranked[k] = [time |-> SampleTime(i), diff |-> calc_in.frames[i]]
        /\ \A k, l \in DOMAIN ranked : k < l => ranked[k].diff >= ranked[l].diff
        /\ Len(moments) = IF calc_in.num_clips <= Cardinality(ScoredSamples)
                          THEN calc_in.num_clips ELSE Cardinality(ScoredSamples)
        /\ \A k \in DOMAIN moments :
               moments[k].start =
                   IF ranked[k].time + 330 > calc_in.duration
                   THEN (IF calc_in.duration > 1200 THEN calc_in.duration - 1200 ELSE 0)
                   ELSE ranked[k].time

\* C22 witness: on a 10 s clip with an undecodable sample the later of the two
\* selected samples had the higher score.
C22_Witness ==
    /\ calc_out.kind = "moments"
    /\ calc_in.can_read_frames
    /\ calc_in.duration = 3000
    /\ \E i \in DOMAIN calc_in.frames : calc_in.frames[i] = NoScore
    /\ Len(calc_out.moments) = 2
    /\ calc_out.moments[1].start = 1500
    /\ calc_out.moments[2].start = 600

\* C24: for a clip with a known positive duration every returned moment has
\* start >= 0, length > 0 and start + length <= duration, whatever can be
\* decoded, whatever the scores and whatever the random draws.
C24_MomentsInsideClip ==
    (calc_out.kind = "moments" /\ calc_in.duration > 0) =>
        \A k \in DOMAIN calc_out.moments :
            /\ calc_out.moments[k].start >= 0
            /\ calc_out.moments[k].length > 0
            /\ calc_out.moments[k].start + calc_out.moments[k].length <= calc_in.duration

\* C24 witness: a moment selected in the last second of a 10 s clip was
\* re-anchored to the last 4 s.
C24_Witness ==
    /\ calc_out.kind = "moments"
    /\ calc_in.duration = 3000
    /\ \E k \in DOMAIN calc_out.moments :
           calc_out.moments[k] = [start |-> 1800, length |-> 1170]

\* No request handler and no worker thread is in the middle of its writes.
Quiescent ==
    /\ \A p \in PollIds : pollers[p].pc \in {"unused", "done"}
    /\ \A w \in JobIds : workers[w].pc \in {"unused", "done"}

\* C23: the job status map and the job result map stay consistent: whenever no
\* poll and no worker is in the middle of its writes, a session has a result
\* entry only if its status entry is completed or failed, so no orphaned result
\* entry remains once a poll has consumed the terminal result.
C23_ResultOnlyWithTerminalStatus ==
    Quiescent =>
        \A s \in Sessions : job_results[s] # NoResult => job_status[s] \in Terminal

\* The render requests accepted so far for session s.
JobsOf(s) == {w \in JobIds : workers[w].sid = s /\ workers[w].pc # "unused"}

\* C25: once a poll has reported failed for the job of a session, no later poll
\* for that session (one started later and answering later) reports completed,
\* as long as no new render request for the session was accepted (the session
\* has had a single request).
C25_NoCompletedAfterFailed ==
    [][\A p \in PollIds :
          (/\ pollers[p].pc # "done"
           /\ pollers'[p].pc = "done"
           /\ pollers'[p].response = "completed"
           /\ Cardinality(JobsOf(pollers'[p].sid)) <= 1) =>
              ~\E q \in PollIds :
                  /\ q < p
                  /\ pollers[q].pc = "done"
                  /\ pollers[q].sid = pollers'[p].sid
                  /\ pollers[q].response = "failed"]_vars

====
